---- MODULE Spec2Model ----
(***************************************************************************)
(* Cottage Tandoori printer helper: the Supabase print-queue poller        *)
(* (server.js 403-514) and the hybrid thermal -> Windows print endpoints   *)
(* (server.js 1186-1346) as state machines.                                *)
(*                                                                         *)
(* One action is one run of JavaScript between two suspension points       *)
(* (an awaited RPC, the exec callback, an awaited printer call): Node      *)
(* runs such a stretch without interleaving, and anything may interleave   *)
(* at the await.                                                           *)
(***************************************************************************)
EXTENDS Integers, Sequences, FiniteSets, TLC

\* ----------------------------------------------------------------- bounds
NumJobs == 3
MaxTicks == 2
MaxFaults == 1
MaxReqs == 2
MaxQR == 2
MaxLen == 50
MaxItems == 2
MaxQty == 2
MaxPrinters == 3
MaxAttempts == 2
MaxClock == 1

\* char.repeat(48); 48 - text.length: the columns of 80mm paper (index.js:167).
W == 48

Jobs == 1..NumJobs
Ticks == 1..MaxTicks
Reqs == 1..MaxReqs

VARIABLES
    alive,           \* the Node process is running
    pollingEnabled,  \* server.js:27,35
    status,          \* the queue's status column, per job id
    tick,            \* per invocation of pollPrintQueue: where it is
    ex,              \* per (tick, job): one execution of processPrintJob
    faults,          \* failures injected so far (bounded by MaxFaults)
    req,             \* per HTTP request to the print endpoints
    rs,              \* one call of a receipt renderer: the payload so far
    lay,             \* one WindowsPrintFormatter, or one item row, and its output
    rc,              \* one customer receipt: items, amounts and printed totals
    fp,              \* one call of findThermalPrinter
    tf               \* overlapping print attempts and the temp directory

pollerVars == <<alive, pollingEnabled, status, tick, ex, faults>>
dispatchVars == <<req>>
renderVars == <<rs>>
layoutVars == <<lay>>
receiptVars == <<rc>>
finderVars == <<fp>>
tempVars == <<tf>>
otherVars == <<layoutVars, receiptVars, finderVars, tempVars>>
vars == <<pollerVars, dispatchVars, renderVars, otherVars>>

\* ------------------------------------------------------ the external queue
\* supabase.rpc resolves to {data, error}: "ok" (the update is applied),
\* "error" (it is not applied and an error object is returned), or the
\* promise rejects, "throw" (not applied).
RpcOutcomes == {"ok", "error", "throw"}

Terminal == {"COMPLETED", "FAILED"}

\* The cost of an outcome against the failure budget.
Cost(o) == IF o \in {"ok", "printOk", "exec"} THEN 0 ELSE 1

Min(S) == CHOOSE x \in S : \A y \in S : x <= y

\* ------------------------------------------------------------ executions
NoEx ==
    [pc |-> "none", mark |-> "none", out |-> "none", atRender |-> "none",
     printed |-> FALSE, term |-> 0, rep |-> "none", msg |-> "none",
     persist |-> "none", logged |-> FALSE, late |-> FALSE]

\* A terminal report for job j was issued and did not persist.
Lost(j) == \E t \in Ticks : ex[t][j].persist \in {"error", "throw"}

\* processPrintJob(job) up to its first await: the PRINTING update is issued.
StartJob(e, j) == [e EXCEPT !.pc = "mark", !.late = Lost(j)]

\* A callback that reports no terminal status.
CallbackReportPrinting(printError) == "PRINTING"

\* A callback that reports COMPLETED whatever the print attempt said.
CallbackReportAlwaysCompleted(printError) == "COMPLETED"

\* The callback handed to printToWindows: which status it reports.
CallbackReport(printError) == IF printError THEN "FAILED" ELSE "COMPLETED"

\* A catch block that logs the error and reports nothing to the queue.
CatchBlockSilent(e, j, why) ==
    [e EXCEPT !.pc = "catchUpd", !.out = why, !.late = @ \/ Lost(j)]

\* The catch block of processPrintJob: one FAILED update carrying error.message.
CatchBlock(e, j, why) ==
    [e EXCEPT !.pc = "catchUpd", !.out = why, !.term = @ + 1,
              !.rep = "FAILED", !.msg = why, !.late = @ \/ Lost(j)]

\* pollPrintQueue's for loop: the next job of the batch after j, or the end.
Rest(t, j) == {k \in tick[t].batch : k > j}

Advance(t, j, exj) ==
    IF Rest(t, j) = {}
    THEN /\ tick' = [tick EXCEPT ![t].pc = "done"]
         /\ ex' = [ex EXCEPT ![t][j] = exj]
    ELSE LET n == Min(Rest(t, j)) IN
         /\ tick' = [tick EXCEPT ![t].cur = n]
         /\ ex' = [ex EXCEPT ![t][j] = exj, ![t][n] = StartJob(ex[t][n], n)]

\* ------------------------------------------------------------------ Init
NoResp == [code |-> 0, success |-> FALSE, method |-> "none", errors |-> <<>>]

NoReq ==
    [pc |-> "new", endpoint |-> "none", attempts |-> <<>>, reasons |-> <<>>,
     resp |-> NoResp, sent |-> 0, result |-> "none"]

\* let receipt = '' and the printer before the first instruction.
NoRender ==
    [renderer |-> "none", pc |-> "idle", step |-> 0, qi |-> 0,
     align |-> "left", bold |-> FALSE, redundant |-> FALSE, first |-> "none",
     tail |-> <<>>, cuts |-> 0, heading |-> FALSE, trace |-> <<>>,
     out |-> <<>>, skipped |-> "none", qrBad |-> 0, fallbacks |-> 0,
     result |-> "none"]

\* new WindowsPrintFormatter() (index.js:107-112), nothing generated yet.
NoLayout ==
    [pc |-> "new", kind |-> "none", content |-> <<>>, output |-> <<>>,
     lead |-> 0, price |-> 0]

\* The order data before formatReceipt is called, and nothing printed.
NoReceipt ==
    [pc |-> "new", items |-> <<>>, lines |-> <<>>, totals |-> FALSE,
     subtotal |-> 0, tax |-> 0, fee |-> 0, taxLine |-> FALSE,
     feeLine |-> FALSE, total |-> 0]

\* findThermalPrinter was called and awaits getAvailablePrinters.
NoFinder ==
    [pc |-> "new", listed |-> FALSE, printers |-> <<>>, result |-> "none",
     error |-> "none"]

\* The temp directory is empty and no print attempt has started.
Attempts == 1..MaxAttempts
Clock == 0..MaxClock
\* A file name: <<"temp_print", 0>> for temp_print.txt, <<"receipt", c>> for
\* receipt_c.txt.
TempFiles == {<<"temp_print", 0>>} \cup {<<"receipt", c>> : c \in Clock}

NoTemp ==
    [server |-> "none", clock |-> 0, files |-> [f \in TempFiles |-> 0],
     att |-> [a \in Attempts |-> [pc |-> "new", file |-> <<"none", 0>>, sent |-> 0]]]

Init ==
    /\ req = [r \in Reqs |-> NoReq]
    /\ rs = NoRender
    /\ lay = NoLayout
    /\ rc = NoReceipt
    /\ fp = NoFinder
    /\ tf = NoTemp
    /\ alive = TRUE
    /\ pollingEnabled \in BOOLEAN
    /\ status = [j \in Jobs |-> "PENDING"]
    /\ tick = [t \in Ticks |-> [pc |-> "idle", batch |-> {}, cur |-> 0]]
    /\ ex = [t \in Ticks |-> [j \in Jobs |-> NoEx]]
    /\ faults = 0

\* --------------------------------------------------------------- actions
\* A poll that fetches whether or not polling is enabled.
PollTickIgnoringFlag(t) ==
    /\ alive
    /\ tick[t].pc = "idle"
    /\ IF t = 1 THEN TRUE ELSE tick[t - 1].pc # "idle"
    /\ tick' = [tick EXCEPT ![t].pc = "fetch"]
    /\ UNCHANGED <<alive, pollingEnabled, status, ex, faults, req, rs, otherVars>>

\* The timer (or the initial poll) invokes pollPrintQueue; nothing guards
\* against an invocation that is still running.
PollTick(t) ==
    /\ alive
    /\ tick[t].pc = "idle"
    /\ IF t = 1 THEN TRUE ELSE tick[t - 1].pc # "idle"
    /\ tick' = [tick EXCEPT ![t].pc = IF pollingEnabled THEN "fetch" ELSE "done"]
    /\ UNCHANGED <<alive, pollingEnabled, status, ex, faults, req, rs, otherVars>>

\* get_pending_print_jobs resolves.
FetchResolve(t) ==
    /\ alive
    /\ tick[t].pc = "fetch"
    /\ \E o \in RpcOutcomes :
        /\ faults + Cost(o) <= MaxFaults
        /\ faults' = faults + Cost(o)
        /\ LET jobs == {j \in Jobs : status[j] = "PENDING"} IN
           IF o # "ok" \/ jobs = {}
           THEN /\ tick' = [tick EXCEPT ![t].pc = "done"]
                /\ ex' = ex
           ELSE LET n == Min(jobs) IN
                /\ tick' = [tick EXCEPT ![t] = [pc |-> "run", batch |-> jobs, cur |-> n]]
                /\ ex' = [ex EXCEPT ![t][n] = StartJob(ex[t][n], n)]
    /\ UNCHANGED <<alive, pollingEnabled, status, req, rs, otherVars>>

\* What happens between the PRINTING update and the end of printToWindows.
ProcOutcomes == {"parseFail", "renderFail", "noContent", "writeFail", "exec"}

\* The PRINTING update resolves; its result is not looked at (server.js:408).
MarkResolve(t, j) ==
    /\ alive
    /\ tick[t].pc = "run" /\ tick[t].cur = j
    /\ ex[t][j].pc = "mark"
    /\ \E o \in RpcOutcomes, p \in ProcOutcomes :
        /\ o = "throw" => p = "exec"
        /\ faults + Cost(o) + (IF o = "throw" THEN 0 ELSE Cost(p)) <= MaxFaults
        /\ faults' = faults + Cost(o) + (IF o = "throw" THEN 0 ELSE Cost(p))
        /\ status' = IF o = "ok" THEN [status EXCEPT ![j] = "PRINTING"] ELSE status
        /\ LET e0 == [ex[t][j] EXCEPT !.mark = o] IN
           CASE o = "throw" ->
                    /\ ex' = [ex EXCEPT ![t][j] = CatchBlock(e0, j, "markThrow")]
                    /\ tick' = tick
             [] o # "throw" /\ p = "parseFail" ->
                    /\ ex' = [ex EXCEPT ![t][j] = CatchBlock(e0, j, p)]
                    /\ tick' = tick
             [] o # "throw" /\ p \in {"renderFail", "noContent"} ->
                    /\ ex' = [ex EXCEPT ![t][j] =
                                CatchBlock([e0 EXCEPT !.atRender = status'[j]], j, p)]
                    /\ tick' = tick
             [] o # "throw" /\ p = "writeFail" ->
                    Advance(t, j, [e0 EXCEPT !.atRender = status'[j],
                                       !.pc = "cbUpd", !.out = p,
                                       !.term = @ + 1,
                                       !.rep = CallbackReport(TRUE), !.msg = p,
                                       !.late = @ \/ Lost(j)])
             [] o # "throw" /\ p = "exec" ->
                    Advance(t, j, [e0 EXCEPT !.atRender = status'[j],
                                       !.pc = "exec", !.printed = TRUE,
                                       !.late = @ \/ Lost(j)])
    /\ UNCHANGED <<alive, pollingEnabled, req, rs, otherVars>>

\* The FAILED update of the catch block resolves (server.js:459-467).
CatchResolve(t, j) ==
    /\ alive
    /\ tick[t].pc = "run" /\ tick[t].cur = j
    /\ ex[t][j].pc = "catchUpd"
    /\ \E o \in RpcOutcomes :
        /\ faults + Cost(o) <= MaxFaults
        /\ faults' = faults + Cost(o)
        /\ status' = IF o = "ok" THEN [status EXCEPT ![j] = "FAILED"] ELSE status
        /\ Advance(t, j, [ex[t][j] EXCEPT !.pc = "done", !.persist = o,
                                          !.logged = (o = "throw")])
    /\ UNCHANGED <<alive, pollingEnabled, req, rs, otherVars>>

\* exec's callback: the print command returned (server.js:373-392, 434-452).
ExecReturn(t, j) ==
    /\ alive
    /\ ex[t][j].pc = "exec"
    /\ \E r \in {"printOk", "printFail"} :
        /\ faults + Cost(r) <= MaxFaults
        /\ faults' = faults + Cost(r)
        /\ ex' = [ex EXCEPT ![t][j] =
                    [@ EXCEPT !.pc = "cbUpd", !.out = r, !.term = @ + 1,
                              !.rep = CallbackReport(r = "printFail"),
                              !.msg = IF r = "printFail" THEN r ELSE "none",
                              !.late = @ \/ Lost(j)]]
    /\ UNCHANGED <<alive, pollingEnabled, status, tick, req, rs, otherVars>>

\* The callback's status update resolves. Nothing catches a rejection here:
\* it is an unhandled rejection, which ends the process on Node 15+ and is a
\* warning before.
CallbackResolve(t, j) ==
    /\ alive
    /\ ex[t][j].pc = "cbUpd"
    /\ \E o \in RpcOutcomes, crash \in BOOLEAN :
        /\ crash => o = "throw"
        /\ faults + Cost(o) <= MaxFaults
        /\ faults' = faults + Cost(o)
        /\ status' = IF o = "ok" THEN [status EXCEPT ![j] = ex[t][j].rep] ELSE status
        /\ ex' = [ex EXCEPT ![t][j] = [@ EXCEPT !.pc = "done", !.persist = o]]
        /\ alive' = ~crash
    /\ UNCHANGED <<pollingEnabled, tick, req, rs, otherVars>>

\* The poller as the process runs it: every timer tick, overlapping or not.
Next ==
    \/ \E t \in Ticks : PollTick(t)
    \/ \E t \in Ticks : FetchResolve(t)
    \/ \E t \in Ticks, j \in Jobs : MarkResolve(t, j)
    \/ \E t \in Ticks, j \in Jobs : CatchResolve(t, j)
    \/ \E t \in Ticks, j \in Jobs : ExecReturn(t, j)
    \/ \E t \in Ticks, j \in Jobs : CallbackResolve(t, j)

Spec == Init /\ [][Next]_vars

\* The initial poll alone (server.js:510), its whole batch and its callbacks.
NextOneTick ==
    \/ PollTick(1)
    \/ FetchResolve(1)
    \/ \E j \in Jobs : MarkResolve(1, j)
    \/ \E j \in Jobs : CatchResolve(1, j)
    \/ \E j \in Jobs : ExecReturn(1, j)
    \/ \E j \in Jobs : CallbackResolve(1, j)

SpecOneTick == Init /\ [][NextOneTick]_vars

\* The same with the event loop's progress: a promise that can resolve does,
\* and the print command returns.
SpecOneTickFair == SpecOneTick /\ WF_vars(NextOneTick)

\* ------------------------------------------- hybrid print endpoints
\* POST /print/kitchen and POST /print/test of the thermal-library server:
\* the thermal printer first, the Windows print command as the fallback.
Endpoints == {"kitchen", "test"}

\* res.json({success: true, ..., method: 'thermal'}) (server.js:1209, 1309).
ThermalResponse ==
    [code |-> 200, success |-> TRUE, method |-> "thermal", errors |-> <<>>]

\* res.json({success: true, ..., method: 'windows'}) (server.js:1232, 1323):
\* thermalError is not part of the body.
WindowsResponse(reasons) ==
    [code |-> 200, success |-> TRUE, method |-> "windows", errors |-> <<>>]

\* res.status(500).json({success: false, error: error.message, ...}): the
\* error that reached the outer catch, which is the Windows one.
FailureResponse(reasons, last) ==
    [code |-> 500, success |-> FALSE, method |-> "none", errors |-> <<last>>]

\* res.status(400).json(...) for a body without an items array.
InvalidResponse ==
    [code |-> 400, success |-> FALSE, method |-> "none", errors |-> <<"itemsRequired">>]

\* res.json for a test request that names no printer (server.js:1332).
NoPrinterResponse ==
    [code |-> 200, success |-> TRUE, method |-> "none", errors |-> <<>>]

\* A handler whose success path and callback both answer.
RespondTwice(q, body) == [q EXCEPT !.pc = "done", !.resp = body, !.sent = @ + 2]

Respond(q, body) == [q EXCEPT !.pc = "done", !.resp = body, !.sent = @ + 1]

\* What the print command did with the payload: "printed" or "failed".
Printed(q, how) == [q EXCEPT !.result = how]

\* A handler that answers on success and then goes on to the next method.
ThermalDoneThenWindows(q) ==
    [Respond(Printed(q, "printed"), ThermalResponse)
        EXCEPT !.pc = "win", !.attempts = Append(@, "windows")]

\* await printer.execute() returned: the handler answers and ends
\* (server.js:1206-1216, 1306-1316).
ThermalDone(q) == Respond(Printed(q, "printed"), ThermalResponse)

\* catch (thermalError): the Windows print command is started.
ThermalFailed(q, why) ==
    [q EXCEPT !.pc = "win", !.reasons = Append(@, why),
              !.attempts = Append(@, "windows")]

\* The handler up to its first await: validation, formatKitchenTicket and
\* the call of isPrinterConnected. "printable": the kitchen body has an items
\* array; the test body names the printer 'kitchen' or 'both' (the default).
Receive(r) ==
    /\ req[r].pc = "new"
    /\ \E ep \in Endpoints, printable \in BOOLEAN, fmt \in {"ok", "initFail", "formatThrow"} :
        LET q == [req[r] EXCEPT !.endpoint = ep] IN
        IF ~printable
        THEN /\ fmt = "ok"
             /\ req' = [req EXCEPT ![r] =
                    Respond(q, IF ep = "kitchen" THEN InvalidResponse
                                                 ELSE NoPrinterResponse)]
        ELSE LET q1 == [q EXCEPT !.attempts = <<"thermal">>] IN
             req' = [req EXCEPT ![r] =
                    IF fmt = "ok" THEN [q1 EXCEPT !.pc = "conn"]
                                  ELSE ThermalFailed(q1, fmt)]
    /\ UNCHANGED <<pollerVars, renderVars, otherVars>>

\* isPrinterConnected resolves.
ConnResolve(r) ==
    /\ req[r].pc = "conn"
    /\ \E c \in {"connected", "notConnected", "connReject"} :
        req' = [req EXCEPT ![r] =
                  IF c = "connected" THEN [@ EXCEPT !.pc = "exec"]
                                     ELSE ThermalFailed(@, c)]
    /\ UNCHANGED <<pollerVars, renderVars, otherVars>>

\* printer.execute resolves.
ExecuteResolve(r) ==
    /\ req[r].pc = "exec"
    /\ \E ok \in BOOLEAN :
        req' = [req EXCEPT ![r] =
                  IF ok THEN ThermalDone(@)
                        ELSE ThermalFailed(@, "executeFail")]
    /\ UNCHANGED <<pollerVars, renderVars, otherVars>>

\* printToWindowsPrinter resolves or rejects.
WindowsResolve(r) ==
    /\ req[r].pc = "win"
    /\ \E ok \in BOOLEAN :
        req' = [req EXCEPT ![r] =
                  IF ok THEN Respond(Printed(@, "printed"), WindowsResponse(@.reasons))
                        ELSE Respond([Printed(@, "failed") EXCEPT
                                          !.reasons = Append(@, "windowsFail")],
                                     FailureResponse(@.reasons, "windowsFail"))]
    /\ UNCHANGED <<pollerVars, renderVars, otherVars>>

\* POST /print/kitchen of the print-command server (server.js:898-937): no
\* field is required (a body without items prints 'TEST KITCHEN PRINT');
\* the ticket text is built and printToWindows is called.
\* fs.writeFileSync throws inside the promise executor, so the promise
\* rejects and the handler's catch answers 500.
SpoolResponse(ok) ==
    [code |-> 200, success |-> ok, method |-> "spooler",
     errors |-> IF ok THEN <<>> ELSE <<"printFailed">>]

SpoolErrorResponse ==
    [code |-> 500, success |-> FALSE, method |-> "none", errors |-> <<"writeFail">>]

SpoolReceive(r) ==
    /\ req[r].pc = "new"
    /\ \E written \in BOOLEAN :
        LET q == [req[r] EXCEPT !.endpoint = "spooler", !.attempts = <<"spooler">>] IN
        req' = [req EXCEPT ![r] =
                  IF written THEN [q EXCEPT !.pc = "spool"]
                  ELSE Respond([Printed(q, "failed") EXCEPT
                                    !.reasons = Append(@, "writeFail")],
                               SpoolErrorResponse)]
    /\ UNCHANGED <<pollerVars, renderVars, otherVars>>

\* The print process closes (exit code) or emits 'error': printToWindows
\* resolves {success: ...} and the handler answers with res.json.
printToWindowsResolve(r) ==
    /\ req[r].pc = "spool"
    /\ \E how \in {"close0", "closeNonZero", "error"} :
        req' = [req EXCEPT ![r] =
                  IF how = "close0"
                  THEN Respond(Printed(@, "printed"), SpoolResponse(TRUE))
                  ELSE Respond([Printed(@, "failed") EXCEPT
                                    !.reasons = Append(@, how)],
                               SpoolResponse(FALSE))]
    /\ UNCHANGED <<pollerVars, renderVars, otherVars>>

\* POST /print/template of the polling server (server.js:519-562) with the
\* callback style printToWindows (server.js:362-398).
TemplateResponse(ok, why) ==
    [code |-> IF ok THEN 200 ELSE 500, success |-> ok, method |-> "spooler",
     errors |-> IF ok THEN <<>> ELSE <<why>>]

\* The handler up to the return of printToWindows: formatReceipt returns the
\* payload, returns null or throws (both answered 500 by the catch); then
\* the temp file is written, or the write throws and printToWindows calls
\* the callback with writeError at once.
TemplateReceive(r) ==
    /\ req[r].pc = "new"
    /\ \E fmt \in {"payload", "null", "throw"}, written \in BOOLEAN :
        /\ fmt # "payload" => written
        /\ LET q == [req[r] EXCEPT !.endpoint = "template"]
               q1 == [q EXCEPT !.attempts = <<"spooler">>]
           IN req' = [req EXCEPT ![r] =
                        CASE fmt # "payload" ->
                                Respond([q EXCEPT !.reasons = Append(@, fmt)],
                                        TemplateResponse(FALSE, fmt))
                          [] fmt = "payload" /\ ~written ->
                                Respond([Printed(q1, "failed") EXCEPT
                                             !.reasons = Append(@, "writeFail")],
                                        TemplateResponse(FALSE, "writeFail"))
                          [] OTHER -> [q1 EXCEPT !.pc = "execCb"]]
    /\ UNCHANGED <<pollerVars, renderVars, otherVars>>

\* exec's callback: error, 'ERROR:' in stdout, or success; the handler's
\* callback answers.
TemplateExecReturn(r) ==
    /\ req[r].pc = "execCb"
    /\ \E how \in {"success", "execError", "powershellError"} :
        req' = [req EXCEPT ![r] =
                  IF how = "success"
                  THEN Respond(Printed(@, "printed"), TemplateResponse(TRUE, how))
                  ELSE Respond([Printed(@, "failed") EXCEPT
                                    !.reasons = Append(@, how)],
                               TemplateResponse(FALSE, how))]
    /\ UNCHANGED <<pollerVars, renderVars, otherVars>>

NextDispatch ==
    \/ \E r \in Reqs : Receive(r)
    \/ \E r \in Reqs : ConnResolve(r)
    \/ \E r \in Reqs : ExecuteResolve(r)
    \/ \E r \in Reqs : WindowsResolve(r)
    \/ \E r \in Reqs : SpoolReceive(r)
    \/ \E r \in Reqs : printToWindowsResolve(r)
    \/ \E r \in Reqs : TemplateReceive(r)
    \/ \E r \in Reqs : TemplateExecReturn(r)

SpecDispatch == Init /\ [][NextDispatch]_vars

\* ------------------------------------------------------ receipt renderers
\* processRichTemplate (server.js:126-276) appends to the string "receipt"
\* block by block. The payload is a sequence of tokens: ESC/POS instructions
\* (INIT, LS24, CENTER, LEFT, BOLD_ON, BOLD_OFF, DBL, NORMAL, CUT), the line
\* feed LF, and one token per text line naming the line's content. The state
\* keeps, of the payload built so far, what the properties read: the
\* printer's mode, the first token, the last three tokens, the number of
\* cuts, the order of the sections and the tokens of the last block.

\* The blocks of processRichTemplate in program order.
StepsVatFirst ==
    <<"business_name", "address", "phone", "email", "website",
      "header_qr_codes", "orderInfo", "receipt_number", "order_date",
      "customer_name", "order_type", "table_number", "vat_number", "items",
      "footer_message", "footer_qr_codes", "end">>

Steps ==
    <<"business_name", "address", "phone", "email", "website",
      "header_qr_codes", "orderInfo", "receipt_number", "order_date",
      "customer_name", "order_type", "table_number", "items",
      "footer_message", "footer_qr_codes", "vat_number", "end">>

\* The blocks guarded by if (templateData.<field>).
OptionalFields ==
    {"business_name", "address", "phone", "email", "website", "receipt_number",
     "order_date", "customer_name", "order_type", "table_number",
     "footer_message", "vat_number"}

QrLists == {"header_qr_codes", "footer_qr_codes"}

\* What one guarded block appends when its field is truthy.
FieldTokens(f, logo) ==
    CASE f = "business_name" ->
            IF logo THEN <<"CENTER", "logo", "LF">>
            ELSE <<"CENTER", "DBL", "BOLD_ON", "name", "LF", "BOLD_OFF", "NORMAL">>
      [] f = "address" -> <<"CENTER", "address", "LF">>
      [] f = "phone" -> <<"CENTER", "Tel:", "LF">>
      [] f = "email" -> <<"CENTER", "email", "LF">>
      [] f = "website" -> <<"CENTER", "website", "LF">>
      [] f = "receipt_number" -> <<"BOLD_ON", "Order #:", "LF", "BOLD_OFF">>
      [] f = "order_date" -> <<"Date:", "LF">>
      [] f = "customer_name" -> <<"Customer:", "LF">>
      [] f = "order_type" -> <<"Type:", "LF">>
      [] f = "table_number" -> <<"Table:", "LF">>
      [] f = "footer_message" -> <<"CENTER", "footer", "LF">>
      [] f = "vat_number" -> <<"CENTER", "VAT:", "LF">>

\* A block that prints its label although the field is absent.
EmitUnguarded(f, present, logo) == FieldTokens(f, logo)

\* if (templateData.f) { ... }: nothing is appended for a falsy field.
Emit(f, present, logo) == IF present THEN FieldTokens(f, logo) ELSE <<>>

\* A closing block that cuts before the feed.
EndTokensCutFirst == <<"CENTER", "sepEq", "LF", "CUT", "LF">>

\* server.js:265-268.
EndTokens == <<"CENTER", "sepEq", "LF", "LF", "CUT">>

\* The unguarded blocks: server.js:194-199, 222-230, 265-268.
FixedTokens(step) ==
    CASE step = "orderInfo" -> <<"LF", "CENTER", "sepEq", "LF", "LEFT">>
      [] step = "items" ->
            <<"sepDash", "LF", "BOLD_ON", "ITEMS:", "LF", "BOLD_OFF",
              "placeholder", "LF", "sepDash", "LF">>
      [] step = "end" -> EndTokens

\* The title line of a QR code: '--- X QR CODE ---' in the header,
\* '--- X QR ---' in the footer.
QrOpenTokens(list) ==
    <<"LF", "CENTER", IF list = "header_qr_codes" THEN "hqrTitle" ELSE "fqrTitle", "LF">>

\* The statements appended before qr.type.toUpperCase() throws.
QrNoTypeTokens == <<"LF", "CENTER">>

\* After await generateThermalQR: the art, or the text of its catch block,
\* then the content line when the content is short (< 50, < 30).
QrCloseTokens(list, encoded, short) ==
    <<IF encoded THEN (IF list = "header_qr_codes" THEN "hqrArt" ELSE "fqrArt")
                 ELSE (IF list = "header_qr_codes" THEN "hqrFallback" ELSE "fqrFallback"),
      "LF">>
    \o (IF short
        THEN <<IF list = "header_qr_codes" THEN "hqrContent" ELSE "fqrContent", "LF">>
        ELSE <<>>)

\* The section a text line belongs to, by its content.
SectionOf(tok) ==
    CASE tok \in {"name", "logo", "address", "Tel:", "email", "website",
                  "hqrTitle", "hqrArt", "hqrFallback", "hqrContent"} -> "header"
      [] tok \in {"Order #:", "Date:", "Customer:", "Type:", "Table:"} -> "meta"
      [] tok \in {"ITEMS:", "placeholder"} -> "items"
      [] tok \in {"footer", "fqrTitle", "fqrArt", "fqrFallback", "fqrContent",
                  "VAT:"} -> "footer"
      [] tok \in {"sepEq", "sepDash"} -> tok
      [] tok = "CUT" -> "cut"
      [] OTHER -> "none"

\* The printer's reaction to one token: the mode after it, and whether the
\* token was an alignment or emphasis instruction for the mode already set.
Apply(m, tok) ==
    CASE tok = "INIT" -> [m EXCEPT !.align = "left", !.bold = FALSE]
      [] tok = "CENTER" ->
            [m EXCEPT !.align = "center", !.redundant = @ \/ m.align = "center"]
      [] tok = "LEFT" ->
            [m EXCEPT !.align = "left", !.redundant = @ \/ m.align = "left"]
      [] tok = "BOLD_ON" -> [m EXCEPT !.bold = TRUE, !.redundant = @ \/ m.bold]
      [] tok = "BOLD_OFF" -> [m EXCEPT !.bold = FALSE, !.redundant = @ \/ ~m.bold]
      [] OTHER -> m

Last3(q) == IF Len(q) <= 3 THEN q ELSE SubSeq(q, Len(q) - 2, Len(q))

\* receipt += tok.
Push1(s, tok) ==
    LET sec == SectionOf(tok)
        m == Apply([align |-> s.align, bold |-> s.bold, redundant |-> s.redundant], tok)
    IN [s EXCEPT
          !.align = m.align, !.bold = m.bold, !.redundant = m.redundant,
          !.first = IF @ = "none" THEN tok ELSE @,
          !.tail = Last3(Append(@, tok)),
          !.cuts = IF tok = "CUT" /\ @ < 2 THEN @ + 1 ELSE @,
          !.heading = @ \/ tok = "ITEMS:",
          !.trace = IF sec = "none" \/ (@ # <<>> /\ @[Len(@)] = sec)
                    THEN @ ELSE Append(@, sec)]

RECURSIVE Push(_, _)
Push(s, toks) ==
    IF toks = <<>> THEN s ELSE Push(Push1(s, Head(toks)), Tail(toks))

\* One block appended toks; "skipped" names the optional element whose
\* guard was false.
Block(s, toks, skippedElement) ==
    [Push(s, toks) EXCEPT !.out = toks, !.skipped = skippedElement]

\* The lines of the item loop of a kitchen ticket.
ItemLines(items) == IF items = "some" THEN <<"item", "LF", "", "LF">> ELSE <<>>

\* formatKitchenTicket of the thermal-library server (server.js:1072-1144):
\* the heading is printed before the test of orderData.items.
ThermalTicketTokens(items, table, special) ==
    <<"CENTER", "NORMAL", "BOLD_ON", "COTTAGE TANDOORI", "LF", "KITCHEN ORDER",
      "LF", "BOLD_OFF", "sepDash", "LF", "LEFT", "NORMAL", "Order:", "LF",
      "Type:", "LF", "Time:", "LF">>
    \o (IF table THEN <<"Table:", "LF">> ELSE <<>>)
    \o <<"sepDash", "LF", "BOLD_ON", "ITEMS:", "LF", "BOLD_OFF">>
    \o ItemLines(items)
    \o (IF special
        THEN <<"sepDash", "LF", "BOLD_ON", "SPECIAL INSTRUCTIONS:", "LF",
               "BOLD_OFF", "special", "LF">>
        ELSE <<>>)
    \o <<"sepDash", "LF", "CENTER", "KITCHEN COPY", "LF", "CUT">>

\* formatKitchenTicket of the Windows-first server (index.js:225-284) with
\* WindowsPrintFormatter.generateText: plain text lines; the heading sits
\* inside if (orderData.items && orderData.items.length > 0).
WindowsTicketTokens(items, special) ==
    <<"COTTAGE TANDOORI", "LF", "KITCHEN ORDER", "LF", "sepDash", "LF", "",
      "LF", "Order #:", "LF", "Type:", "LF", "Time:", "LF", "sepDash", "LF",
      "", "LF">>
    \o (IF items = "some" THEN <<"ITEMS:", "LF">> \o ItemLines(items) ELSE <<>>)
    \o (IF special
        THEN <<"sepDash", "LF", "SPECIAL INSTRUCTIONS:", "LF", "special", "LF",
               "", "LF">>
        ELSE <<>>)
    \o <<"sepDash", "LF", "Thank you!", "LF", "", "LF", "LF", "LF", "LF">>

\* receipt += ESC_POS.INIT; receipt += ESC_POS.LINE_SPACING_24.
processRichTemplateStart ==
    /\ rs.pc = "idle"
    /\ rs' = Block([rs EXCEPT !.renderer = "rich", !.pc = "step", !.step = 1],
                   <<"INIT", "LS24">>, "none")
    /\ UNCHANGED <<pollerVars, dispatchVars, otherVars>>

\* One if (templateData.<field>) block.
FieldBlock ==
    /\ rs.pc = "step"
    /\ Steps[rs.step] \in OptionalFields
    /\ \E present \in BOOLEAN, logo \in BOOLEAN :
        /\ logo => (present /\ Steps[rs.step] = "business_name")
        /\ rs' = Block([rs EXCEPT !.step = @ + 1],
                       Emit(Steps[rs.step], present, logo),
                       IF present THEN "none" ELSE Steps[rs.step])
    /\ UNCHANGED <<pollerVars, dispatchVars, otherVars>>

\* One unguarded block; the last one returns the receipt.
FixedBlock ==
    /\ rs.pc = "step"
    /\ Steps[rs.step] \in {"orderInfo", "items", "end"}
    /\ rs' = Block(IF Steps[rs.step] = "end"
                   THEN [rs EXCEPT !.pc = "done", !.result = "payload"]
                   ELSE [rs EXCEPT !.step = @ + 1],
                   FixedTokens(Steps[rs.step]), "none")
    /\ UNCHANGED <<pollerVars, dispatchVars, otherVars>>

\* One turn of for (const qr of templateData.<list>), up to the await; the
\* list (absent, empty or exhausted) may also end here. A spec with enabled
\* and content but no type makes qr.type.toUpperCase() throw: the catch of
\* processRichTemplate returns null.
QrKinds == {"disabled", "noContent", "noType", "typed"}

QrLoop ==
    /\ rs.pc = "step"
    /\ Steps[rs.step] \in QrLists
    /\ \/ rs' = Block([rs EXCEPT !.step = @ + 1, !.qi = 0], <<>>, "none")
       \/ /\ rs.qi < MaxQR
          /\ \E kind \in QrKinds :
              rs' = CASE kind \in {"disabled", "noContent"} ->
                            Block([rs EXCEPT !.qi = @ + 1], <<>>, "qr")
                      [] kind = "noType" ->
                            Block([rs EXCEPT !.pc = "done", !.result = "null",
                                             !.qrBad = @ + 1],
                                  QrNoTypeTokens, "none")
                      [] kind = "typed" ->
                            Block([rs EXCEPT !.pc = "qr"],
                                  QrOpenTokens(Steps[rs.step]), "none")
    /\ UNCHANGED <<pollerVars, dispatchVars, otherVars>>

\* await generateThermalQR(...) resolves: with the art, or with the text of
\* its catch block when QRCode.toString rejected.
generateThermalQRResolve ==
    /\ rs.pc = "qr"
    /\ \E encoded \in BOOLEAN, short \in BOOLEAN :
        rs' = Block([rs EXCEPT !.pc = "step", !.qi = @ + 1,
                               !.qrBad = IF encoded THEN @ ELSE @ + 1,
                               !.fallbacks = IF encoded THEN @ ELSE @ + 1],
                    QrCloseTokens(Steps[rs.step], encoded, short), "none")
    /\ UNCHANGED <<pollerVars, dispatchVars, otherVars>>

\* One call of a formatKitchenTicket; initializePrinter returning null
\* makes the thermal one throw.
formatKitchenTicket ==
    /\ rs.pc = "idle"
    /\ \E variant \in {"thermalTicket", "windowsTicket"},
          items \in {"absent", "empty", "some"},
          table \in BOOLEAN, special \in BOOLEAN, printerOk \in BOOLEAN :
        /\ (table \/ ~printerOk) => variant = "thermalTicket"
        /\ ~printerOk => (items = "absent" /\ ~table /\ ~special)
        /\ rs' = IF ~printerOk
                 THEN [rs EXCEPT !.renderer = variant, !.pc = "done",
                                 !.result = "thrown"]
                 ELSE Block([rs EXCEPT !.renderer = variant, !.pc = "done",
                                       !.result = "payload"],
                            IF variant = "thermalTicket"
                            THEN ThermalTicketTokens(items, table, special)
                            ELSE WindowsTicketTokens(items, special),
                            "none")
    /\ UNCHANGED <<pollerVars, dispatchVars, otherVars>>

\* The simple text path of formatReceipt (server.js:285-359), which has no
\* try/catch: what the call does for each shape of its argument.
\*   data "null": job.print_data was null, so data.template_data throws;
\*   items "withNull": the array holds a null, so item.quantity throws;
\*   items "modifiersString": an item's modifiers is a non-empty string, so
\*   item.modifiers.forEach throws (kitchen tickets only).
LegacyThrows(data, type, items) ==
    \/ data = "null"
    \/ items = "withNull"
    \/ (type = "kitchen" /\ items = "modifiersString")

LegacyTokens(type, items) ==
    IF type = "kitchen"
    THEN <<"COTTAGE TANDOORI - KITCHEN", "LF", "sepEq", "LF", "Order #", "LF",
           "Table:", "LF", "Time:", "LF", "sepDash", "LF">>
         \o (IF items = "absent" THEN <<>> ELSE <<"item", "LF", "", "LF">>)
         \o <<"sepDash", "LF", "Special Instructions:", "LF", "notes", "LF",
              "sepEq", "LF">>
    ELSE <<"COTTAGE TANDOORI", "LF", "123 Restaurant Street", "LF", "Phone:",
           "LF", "sepEq", "LF", "Order #", "LF", "Time:", "LF", "sepDash", "LF">>
         \o (IF items = "absent" THEN <<>>
             ELSE <<"item", "LF", "sepDash", "LF", "Subtotal:", "LF", "TOTAL:", "LF">>)
         \o <<"sepEq", "LF", "Thank you for your order!", "LF",
              "Visit us again soon!", "LF">>

\* formatReceipt(data, type) without template_data. (With template_data it
\* returns await processRichTemplate, the actions above.)
formatReceipt ==
    /\ rs.pc = "idle"
    /\ \E data \in {"null", "object"}, type \in {"kitchen", "receipt"},
          items \in {"absent", "array", "withNull", "modifiersString"} :
        /\ data = "null" => (type = "receipt" /\ items = "absent")
        /\ LET r == [rs EXCEPT !.renderer = IF type = "kitchen" THEN "legacyKitchen"
                                                              ELSE "legacyReceipt",
                               !.pc = "done"] IN
           rs' = IF LegacyThrows(data, type, items)
                 THEN [r EXCEPT !.result = "thrown"]
                 ELSE Block([r EXCEPT !.result = "payload"],
                            LegacyTokens(type, items), "none")
    /\ UNCHANGED <<pollerVars, dispatchVars, otherVars>>

NextRender ==
    \/ processRichTemplateStart
    \/ FieldBlock
    \/ FixedBlock
    \/ QrLoop
    \/ generateThermalQRResolve
    \/ formatKitchenTicket
    \/ formatReceipt

SpecRender == Init /\ [][NextRender]_vars

\* ---------------------------------------------------------- text layout
\* WindowsPrintFormatter (index.js:106-222) and the item rows of the two
\* customer receipts. A text is a sequence of characters: "x" a lower-case
\* letter, "X" a capital or digit, " " a space, "p" a character of the
\* price, "\n" the line end.
Max(a, b) == IF a >= b THEN a ELSE b

Chars(n, c) == [i \in 1..n |-> c]

\* ' '.repeat(padding)
Spaces(n) == Chars(n, " ")

\* text.replace('\n', ''): the first line end only.
RemoveFirstNewline(text) ==
    LET ends == {i \in DOMAIN text : text[i] = "\n"} IN
    IF ends = {} THEN text
    ELSE LET i == Min(ends) IN
         SubSeq(text, 1, i - 1) \o SubSeq(text, i + 1, Len(text))

\* Padding that rounds up.
CenterPaddingCeil(len) == Max(0, (W - len + 1) \div 2)

\* Math.max(0, Math.floor((48 - len) / 2)) (index.js:197).
CenterPadding(len) == Max(0, (W - len) \div 2)

\* Math.max(0, 48 - len) (index.js:200).
RightPadding(len) == Max(0, W - len)

\* text.replace(/[A-Z0-9]/g, char => char + char) (index.js:206): character
\* i of the text lands after the i - 1 characters before it and their copies.
DoubleCapitals(text) ==
    LET capitals(i) == Cardinality({j \in 1..i : text[j] = "X"})
        total == Len(text) + capitals(Len(text))
    IN [k \in 1..total |->
           text[CHOOSE i \in DOMAIN text :
                   i + capitals(i - 1) <= k /\ k <= i + capitals(i)]]

\* The body of generateText's loop for one item of type 'text'.
FormatItem(item) ==
    LET len == Len(RemoveFirstNewline(item.content))
        padded == CASE item.alignment = "center" ->
                         Spaces(CenterPadding(len)) \o item.content
                    [] item.alignment = "right" ->
                         Spaces(RightPadding(len)) \o item.content
                    [] OTHER -> item.content
    IN IF item.bold /\ item.size = "large" THEN DoubleCapitals(padded) ELSE padded

RECURSIVE generateText(_)
\* generateText: the outputs of the items, concatenated.
generateText(content) ==
    IF content = <<>> THEN <<>>
    ELSE FormatItem(Head(content)) \o generateText(Tail(content))

\* text(str) after println: the item pushed to this.content.
TextItem(str, alignment, size, bold) ==
    [type |-> "text", content |-> str \o <<"\n">>, alignment |-> alignment,
     size |-> size, bold |-> bold]

\* A formatter that was aligned, sized and emboldened prints one line of
\* len characters, all capitals or all lower case.
println ==
    /\ lay.pc = "new"
    /\ \E len \in 0..MaxLen, capitals \in BOOLEAN,
          alignment \in {"left", "center", "right"},
          size \in {"normal", "large"}, bold \in BOOLEAN :
        /\ capitals => len > 0
        /\ lay' = [lay EXCEPT
                     !.pc = "content", !.kind = "text", !.lead = len,
                     !.content = <<TextItem(Chars(len, IF capitals THEN "X" ELSE "x"),
                                            alignment, size, bold)>>]
    /\ UNCHANGED <<pollerVars, dispatchVars, renderVars, receiptVars, finderVars, tempVars>>

\* The lengths of a price such as "£2.00", "£13.00", "£113.00".
PriceLens == 5..7

\* An item row of formatCustomerReceipt (index.js:317-320): the name line
\* left-aligned, then the price line right-aligned, always two lines.
itemRowWindows ==
    /\ lay.pc = "new"
    /\ \E lead \in 3..MaxLen, price \in PriceLens :
        lay' = [lay EXCEPT
                  !.pc = "content", !.kind = "rowWindows", !.lead = lead,
                  !.price = price,
                  !.content = <<TextItem(Chars(lead, "x"), "left", "normal", FALSE),
                                TextItem(Chars(price, "p"), "right", "normal", FALSE)>>]
    /\ UNCHANGED <<pollerVars, dispatchVars, renderVars, receiptVars, finderVars, tempVars>>

\* return formatter.generateText()
generateTextReturn ==
    /\ lay.pc = "content"
    /\ lay' = [lay EXCEPT !.pc = "done", !.output = generateText(lay.content)]
    /\ UNCHANGED <<pollerVars, dispatchVars, renderVars, receiptVars, finderVars, tempVars>>

\* An item row of formatReceipt (server.js:336-337): the name, one space,
\* the amount and the line end appended to the receipt.
itemRowServer ==
    /\ lay.pc = "new"
    /\ \E lead \in 3..MaxLen, price \in PriceLens :
        lay' = [lay EXCEPT
                  !.pc = "done", !.kind = "rowServer", !.lead = lead,
                  !.price = price,
                  !.output = Chars(lead, "x") \o <<" ">> \o Chars(price, "p")
                             \o <<"\n">>]
    /\ UNCHANGED <<pollerVars, dispatchVars, renderVars, receiptVars, finderVars, tempVars>>

NextLayout ==
    \/ println
    \/ itemRowWindows
    \/ generateTextReturn
    \/ itemRowServer

SpecLayout == Init /\ [][NextLayout]_vars

\* ------------------------------------------------------ receipt totals
\* The customer receipt of formatReceipt (server.js:318-354). Amounts are
\* whole pence: the prices are pounds with two decimals, and the products
\* and sums of such values differ from the exact ones by far less than half
\* a penny, so toFixed(2) prints the exact amount.
Prices == {0, 200, 650}
Taxes == {0, 170}
Fees == {0, 250}

\* parseInt(item.quantity || 1): zero is falsy and becomes 1.
Quantity(q) == IF q = 0 THEN 1 ELSE q

\* x.toFixed(2): pounds and pence as printed.
ToFixed2(pence) == [pounds |-> pence \div 100, pence |-> pence % 100]

\* The item line and its amount: `${quantity}x ... £${itemTotal.toFixed(2)}`.
ItemLine(item) ==
    [quantity |-> Quantity(item.quantity),
     pence |-> item.price * Quantity(item.quantity),
     amount |-> ToFixed2(item.price * Quantity(item.quantity))]

RECURSIVE SumPence(_)
\* subtotal += itemTotal
SumPence(lines) ==
    IF lines = <<>> THEN 0 ELSE Head(lines).pence + SumPence(Tail(lines))

\* The order gets one more item.
addItem ==
    /\ rc.pc = "new"
    /\ Len(rc.items) < MaxItems
    /\ \E q \in 0..MaxQty, price \in Prices :
        rc' = [rc EXCEPT !.items = Append(@, [quantity |-> q, price |-> price])]
    /\ UNCHANGED <<pollerVars, dispatchVars, renderVars, layoutVars, finderVars, tempVars>>

\* formatReceipt(data, 'receipt'): the item lines and the totals block, which
\* is printed when data.items is an array (an empty one too).
formatReceiptTotals ==
    /\ rc.pc = "new"
    /\ \E hasItems \in BOOLEAN, tax \in Taxes, fee \in Fees :
        /\ ~hasItems => (rc.items = <<>> /\ tax = 0 /\ fee = 0)
        /\ LET lines == [i \in DOMAIN rc.items |-> ItemLine(rc.items[i])]
               subtotal == SumPence(lines)
           IN rc' = IF ~hasItems THEN [rc EXCEPT !.pc = "done"]
                    ELSE [rc EXCEPT !.pc = "done", !.lines = lines,
                                    !.totals = TRUE,
                                    !.subtotal = subtotal, !.tax = tax, !.fee = fee,
                                    !.taxLine = (tax # 0), !.feeLine = (fee # 0),
                                    !.total = subtotal + tax + fee]
    /\ UNCHANGED <<pollerVars, dispatchVars, renderVars, layoutVars, finderVars, tempVars>>

NextReceipt ==
    \/ addItem
    \/ formatReceiptTotals

SpecReceipt == Init /\ [][NextReceipt]_vars

\* ----------------------------------------------------- printer discovery
\* findThermalPrinter (index.js:66-103) over the names wmic can report.
DEFAULT_PRINTER == "EPSON TM-T20III Receipt"
BACKUP_PRINTER == "EPSON TM-T88V Receipt"

PrinterNames ==
    {DEFAULT_PRINTER, BACKUP_PRINTER, "Epson TM-T70", "EPSON Stylus",
     "Star Receipt", "HP LaserJet"}

\* p.toLowerCase().includes('epson'), ...includes('tm-'), ...includes('receipt')
HasEpson(p) ==
    p \in {DEFAULT_PRINTER, BACKUP_PRINTER, "Epson TM-T70", "EPSON Stylus"}
HasTm(p) == p \in {DEFAULT_PRINTER, BACKUP_PRINTER, "Epson TM-T70"}
HasReceipt(p) == p \in {DEFAULT_PRINTER, BACKUP_PRINTER, "Star Receipt"}

\* A test for any Epson printer, thermal or not.
IsEpson(p) == HasEpson(p)

\* The predicate of printers.find (index.js:81-84).
IsEpsonThermal(p) == HasEpson(p) /\ (HasTm(p) \/ HasReceipt(p))

\* const preferredPrinters = [DEFAULT_PRINTER, BACKUP_PRINTER]
PreferredPrinters == <<DEFAULT_PRINTER, BACKUP_PRINTER>>

\* printers.includes(p)
Includes(list, p) == \E i \in DOMAIN list : list[i] = p

\* for (const preferred of preferredPrinters): the first one the list
\* includes, or "none" when the loop ends.
FirstPreferred(printers) ==
    LET hits == {i \in DOMAIN PreferredPrinters :
                    Includes(printers, PreferredPrinters[i])} IN
    IF hits = {} THEN "none" ELSE PreferredPrinters[Min(hits)]

\* printers.find(...): the first Epson thermal printer of the list, or
\* "none" for undefined.
FindEpsonThermal(printers) ==
    LET hits == {i \in DOMAIN printers : IsEpsonThermal(printers[i])} IN
    IF hits = {} THEN "none" ELSE printers[Min(hits)]

\* The body of findThermalPrinter after the await.
ChoosePrinter(printers) ==
    LET preferred == FirstPreferred(printers)
        epson == FindEpsonThermal(printers)
    IN CASE preferred # "none" -> [result |-> preferred, error |-> "none"]
         [] preferred = "none" /\ epson # "none" ->
                [result |-> epson, error |-> "none"]
         [] preferred = "none" /\ epson = "none" /\ printers # <<>> ->
                [result |-> printers[1], error |-> "none"]
         [] OTHER -> [result |-> "none", error |-> "No printers available"]

\* The lists wmic can print: distinct names, in any order.
PrinterLists ==
    UNION {{l \in [1..n -> PrinterNames] :
              \A i, j \in 1..n : i # j => l[i] # l[j]} : n \in 0..MaxPrinters}

\* getAvailablePrinters resolves with the list, or rejects (not Windows, or
\* wmic failed) and findThermalPrinter rethrows that error.
getAvailablePrintersResolve ==
    /\ fp.pc = "new"
    /\ \/ \E l \in PrinterLists :
            fp' = [fp EXCEPT !.pc = "listed", !.listed = TRUE, !.printers = l]
       \/ \E e \in {"notWindows", "wmicError"} :
            fp' = [fp EXCEPT !.pc = "done", !.error = e]
    /\ UNCHANGED <<pollerVars, dispatchVars, renderVars, layoutVars, receiptVars, tempVars>>

findThermalPrinter ==
    /\ fp.pc = "listed"
    /\ LET c == ChoosePrinter(fp.printers) IN
       fp' = [fp EXCEPT !.pc = "done", !.result = c.result, !.error = c.error]
    /\ UNCHANGED <<pollerVars, dispatchVars, renderVars, layoutVars, receiptVars, tempVars>>

NextFinder ==
    \/ getAvailablePrintersResolve
    \/ findThermalPrinter

SpecFinder == Init /\ [][NextFinder]_vars

\* ------------------------------------------------------- temporary files
\* printToWindows of the print-command server writes temp_print.txt
\* (server.js:824); printToWindows of the polling server and printViaWindows
\* write receipt_${Date.now()}.txt (server.js:363, index.js:359). Attempt a
\* is given the content a; a file holds the content last written, 0 when it
\* does not exist. Attempts of one server overlap: two HTTP requests, or
\* two jobs whose print callbacks are pending together.
TempFile(server, clock) ==
    IF server = "fixed" THEN <<"temp_print", 0>> ELSE <<"receipt", clock>>

\* Date.now() advances.
ClockTick ==
    /\ tf.clock < MaxClock
    /\ tf' = [tf EXCEPT !.clock = @ + 1]
    /\ UNCHANGED <<pollerVars, dispatchVars, renderVars, layoutVars, receiptVars, finderVars>>

\* fs.writeFileSync(tempFile, content) and the start of the print command,
\* one synchronous block.
WriteAndSpawn(a) ==
    /\ tf.att[a].pc = "new"
    /\ \E server \in {"fixed", "clock"} :
        /\ tf.server \in {"none", server}
        /\ LET f == TempFile(server, tf.clock) IN
           tf' = [tf EXCEPT !.server = server, !.files[f] = a,
                            !.att[a] = [pc |-> "spawned", file |-> f, sent |-> 0]]
    /\ UNCHANGED <<pollerVars, dispatchVars, renderVars, layoutVars, receiptVars, finderVars>>

\* The print command opens the file it was given and sends what it finds
\* there (-1 when the file is gone).
PrintCommandRead(a) ==
    /\ tf.att[a].pc = "spawned"
    /\ LET found == tf.files[tf.att[a].file] IN
       tf' = [tf EXCEPT !.att[a].pc = "read",
                        !.att[a].sent = IF found = 0 THEN -1 ELSE found]
    /\ UNCHANGED <<pollerVars, dispatchVars, renderVars, layoutVars, receiptVars, finderVars>>

\* The 'close' handler or exec's callback: fs.unlinkSync(tempFile) inside a
\* try that ignores a missing file.
CloseAndUnlink(a) ==
    /\ tf.att[a].pc = "read"
    /\ tf' = [tf EXCEPT !.att[a].pc = "done", !.files[tf.att[a].file] = 0]
    /\ UNCHANGED <<pollerVars, dispatchVars, renderVars, layoutVars, receiptVars, finderVars>>

NextTemp ==
    \/ ClockTick
    \/ \E a \in Attempts : WriteAndSpawn(a)
    \/ \E a \in Attempts : PrintCommandRead(a)
    \/ \E a \in Attempts : CloseAndUnlink(a)

SpecTemp == Init /\ [][NextTemp]_vars

\* ------------------------------------------------------------ job poller
Execs == Ticks \X Jobs

FailedOutcomes == {"printFail", "writeFail", "renderFail", "noContent", "parseFail"}

\* C1: a job id is dispatched to the printer by at most one tick, and at most
\* one tick ever issues a terminal status report (COMPLETED or FAILED) for it.
C1_ClaimedByOneTick ==
    \A j \in Jobs :
        /\ Cardinality({t \in Ticks : ex[t][j].printed}) <= 1
        /\ Cardinality({t \in Ticks : ex[t][j].rep # "none"}) <= 1

\* C2: no tick begins fetching while an earlier tick still holds a job that
\* was claimed and whose processing, print callback or terminal report is
\* unfinished.
C2_TickNotReentrant ==
    [][\A t \in Ticks :
        (tick[t].pc = "idle" /\ tick'[t].pc = "fetch")
            => \A u \in Ticks, j \in Jobs :
                  u < t => ex[u][j].pc \in {"none", "done"}]_vars

\* C3: one execution of processPrintJob issues exactly one terminal status
\* update: never two, and one once the execution has finished, on every path.
C3_ExactlyOneTerminalUpdate ==
    \A <<t, j>> \in Execs :
        /\ ex[t][j].term <= 1
        /\ ex[t][j].pc \in {"catchUpd", "cbUpd", "done"} => ex[t][j].term = 1
        /\ ex[t][j].pc \in {"none", "mark", "exec"} => ex[t][j].term = 0

C3_Witness ==
    \E t \in Ticks, j \in Jobs, k \in Jobs :
        /\ ex[t][j].pc = "done" /\ ex[t][j].out \in {"markThrow", "parseFail", "renderFail", "noContent"}
        /\ ex[t][k].pc = "done" /\ ex[t][k].out = "printOk"
        /\ ex[t][j].term = 1 /\ ex[t][k].term = 1

\* C4: when the PRINTING update fails (an error is returned or it throws) the
\* job is not rendered, not printed and no FAILED update is issued for it.
C4_FailedClaimLeavesJobUntouched ==
    \A <<t, j>> \in Execs :
        ex[t][j].mark \in {"error", "throw"}
            => /\ ex[t][j].atRender = "none"
               /\ ~ex[t][j].printed
               /\ ex[t][j].rep = "none"

\* C5: a job is rendered or printed only after its PRINTING update has
\* completed, and never while its queue status is still PENDING.
C5_PrintingBeforeRender ==
    \A <<t, j>> \in Execs :
        ex[t][j].atRender # "none"
            => ex[t][j].mark # "none" /\ ex[t][j].atRender # "PENDING"

\* C6: the terminal status an execution reports matches its outcome:
\* COMPLETED only after the print attempt reported success, FAILED with the
\* error's message after a failed print, a failed render or empty content.
C6_ReportMatchesOutcome ==
    \A <<t, j>> \in Execs :
        /\ ex[t][j].rep = "COMPLETED" => ex[t][j].out = "printOk"
        /\ ex[t][j].out \in FailedOutcomes
              => ex[t][j].rep = "FAILED" /\ ex[t][j].msg = ex[t][j].out
        /\ ex[t][j].out = "printOk" => ex[t][j].rep = "COMPLETED"

C6_Witness ==
    \E t \in Ticks, j \in Jobs, k \in Jobs :
        /\ ex[t][j].pc = "done" /\ ex[t][j].out = "printOk" /\ ex[t][j].rep = "COMPLETED"
        /\ ex[t][k].pc = "done" /\ ex[t][k].out \in FailedOutcomes /\ ex[t][k].rep = "FAILED"

\* C7: when a terminal status report does not persist, the error is logged,
\* the job stays PRINTING at the queue, and the poller issues no further
\* update and no further print for that job.
C7_LostReportLoggedAndFinal ==
    \A j \in Jobs :
        Lost(j) =>
            /\ status[j] = "PRINTING"
            /\ \A t \in Ticks :
                  ex[t][j].persist \in {"error", "throw"} => ex[t][j].logged
            /\ \A t \in Ticks : ~ex[t][j].late

\* C8: once a tick has ended (its loop finished, or the process is gone),
\* processPrintJob was started for every job of the batch it fetched.
C8_WholeBatchAttempted ==
    \A t \in Ticks :
        (tick[t].pc = "done" \/ ~alive)
            => \A j \in tick[t].batch : ex[t][j].pc # "none"

\* C9: a status changes only PENDING -> PRINTING -> COMPLETED or FAILED; a
\* PRINTING update is issued only for a PENDING job and a terminal update
\* never for a job that is already terminal.
C9_StatusLifecycle ==
    [][\A j \in Jobs :
        /\ status'[j] # status[j]
              => <<status[j], status'[j]>> \in
                    {<<"PENDING", "PRINTING">>, <<"PRINTING", "COMPLETED">>,
                     <<"PRINTING", "FAILED">>}
        /\ \A t \in Ticks :
              /\ (ex[t][j].pc = "none" /\ ex'[t][j].pc = "mark")
                    => status[j] = "PENDING"
              /\ ex'[t][j].term > ex[t][j].term
                    => status[j] \notin Terminal]_vars

\* -------------------------------------------------------------- dispatch
Range(q) == {q[i] : i \in DOMAIN q}

\* C10: when the first method fails and the second succeeds, the response
\* reports success by the second method and carries the first method's
\* failure reason.
C10_FallbackSuccessCarriesFirstFailure ==
    \A r \in Reqs :
        (req[r].pc = "done" /\ req[r].resp.success /\ Len(req[r].reasons) = 1)
            => /\ req[r].resp.method = "windows"
               /\ req[r].reasons[1] \in Range(req[r].resp.errors)

\* The requests of the hybrid endpoints, which have two configured methods
\* in the order thermal, windows.
Hybrid == {r \in Reqs : req[r].endpoint \in Endpoints}

\* C11: when every method failed, the failure response lists one error per
\* configured method, in the configured order.
C11_FailureListsEveryMethod ==
    \A r \in Hybrid :
        (req[r].pc = "done" /\ req[r].attempts = <<"thermal", "windows">>
            /\ ~req[r].resp.success)
            => /\ Len(req[r].reasons) = 2
               /\ req[r].resp.errors = req[r].reasons

\* C12: within one dispatch each method is attempted at most once, in the
\* configured order, a later method only after the earlier one failed, and
\* no method after one has succeeded; the request is answered once.
C12_AttemptsInOrderOnce ==
    \A r \in Hybrid :
        /\ req[r].attempts \in {<<>>, <<"thermal">>, <<"thermal", "windows">>}
        /\ Len(req[r].attempts) = 2 => Len(req[r].reasons) >= 1
        /\ req[r].sent <= 1
        /\ (req[r].result = "printed" /\ req[r].resp.method = "thermal")
              => (req[r].attempts = <<"thermal">> /\ req[r].pc = "done")
        /\ req[r].result = "printed" => req[r].pc = "done"

C12_Witness ==
    \E r, r2 \in Hybrid :
        /\ req[r].pc = "done" /\ req[r].attempts = <<"thermal", "windows">>
        /\ req[r].result = "printed"
        /\ req[r2].pc = "done" /\ req[r2].attempts = <<"thermal">>
        /\ req[r2].result = "printed"

\* C13: the Windows printer system is the first method tried and the
\* thermal library is the fallback, tried only after Windows failed.
C13_WindowsFirst ==
    \A r \in Hybrid :
        req[r].attempts # <<>> => req[r].attempts[1] = "windows"

\* C14: every print endpoint answers 500 when the print failed, 400 when a
\* required field is missing, and 200 only when the print succeeded.
C14_StatusMatchesOutcome ==
    \A r \in Reqs :
        req[r].pc = "done"
            => /\ req[r].result = "failed" => req[r].resp.code = 500
               /\ req[r].resp.code = 200 => req[r].result # "failed"
               /\ req[r].resp.code = 400 => req[r].attempts = <<>>

\* ------------------------------------------------------------- renderers
\* C15: processRichTemplate never emits an alignment or emphasis
\* instruction for the mode the stream is already in.
C15_NoRedundantModeChange ==
    rs.renderer = "rich" => ~rs.redundant

\* C16: a payload returned by processRichTemplate begins with the
\* initialization sequence and ends with a feed immediately followed by the
\* cut; the cut occurs exactly once, as the last token.
C16_InitFirstCutLast ==
    rs.renderer = "rich"
        => /\ rs.first = "INIT"
           /\ rs.result # "payload" => rs.cuts = 0
           /\ rs.result = "payload"
                 => (rs.tail = <<"LF", "LF", "CUT">> /\ rs.cuts = 1)

C16_Witness ==
    /\ rs.renderer = "rich" /\ rs.result = "payload"
    /\ rs.fallbacks > 0 /\ rs.trace[1] = "sepEq"

\* The fixed order of the sections; header, order metadata and footer are
\* there when one of their elements is.
SectionOrder(h, m, f) ==
    (IF h THEN <<"header">> ELSE <<>>) \o <<"sepEq">>
    \o (IF m THEN <<"meta">> ELSE <<>>) \o <<"sepDash", "items", "sepDash">>
    \o (IF f THEN <<"footer">> ELSE <<>>) \o <<"sepEq", "cut">>

IsPrefix(a, b) == Len(a) <= Len(b) /\ a = SubSeq(b, 1, Len(a))

\* C17: the sections of a processRichTemplate payload appear in the order
\* header, separator, order metadata, separator, item list, separator,
\* footer, final separator, cut, whatever optional fields are present.
C17_SectionsInFixedOrder ==
    rs.renderer = "rich"
        => \E h \in BOOLEAN, m \in BOOLEAN, f \in BOOLEAN :
              /\ IsPrefix(rs.trace, SectionOrder(h, m, f))
              /\ rs.result = "payload" => rs.trace = SectionOrder(h, m, f)

C17_Witness ==
    /\ rs.renderer = "rich" /\ rs.result = "payload"
    /\ rs.trace = SectionOrder(TRUE, TRUE, TRUE)

\* C18: every renderer prints the 'ITEMS:' heading, also when the item
\* collection is empty or absent.
C18_ItemsHeadingAlways ==
    (rs.renderer \in {"rich", "thermalTicket", "windowsTicket"}
        /\ rs.result = "payload") => rs.heading

\* The optional elements C19 names.
OptionalElements ==
    {"address", "phone", "email", "website", "vat_number", "customer_name",
     "table_number", "footer_message", "qr"}

\* What the state keeps of the payload.
PayloadOf(s) ==
    <<s.align, s.bold, s.redundant, s.first, s.tail, s.cuts, s.heading, s.trace>>

\* C19: the block of an absent optional element, or of a QR spec that is
\* disabled or has no content, appends nothing: no label, no text line, no
\* blank line, no instruction; the payload is as it was before the block.
C19_AbsentElementAppendsNothing ==
    [][(rs'.renderer = "rich" /\ rs'.skipped \in OptionalElements)
          => (rs'.out = <<>> /\ PayloadOf(rs') = PayloadOf(rs))]_vars

C19_Witness ==
    /\ rs.renderer = "rich" /\ rs.skipped = "qr" /\ rs.out = <<>>
    /\ rs.trace = <<"header", "sepEq", "meta", "sepDash", "items", "sepDash", "footer">>

\* C20: when an enabled QR code cannot be produced (the encoder fails, or
\* the spec lacks its type), it is replaced by a textual fallback and the
\* render still returns a complete payload.
C20_QrFailureKeepsRendering ==
    (rs.renderer = "rich" /\ rs.pc = "done" /\ rs.qrBad > 0)
        => (rs.result = "payload" /\ rs.fallbacks = rs.qrBad)

\* C21: a call of formatReceipt never ends with an exception, on the rich
\* template path and on the simple text path: it returns a payload or a
\* failure value (null).
C21_FormatReceiptNeverThrows ==
    (rs.renderer \in {"rich", "legacyKitchen", "legacyReceipt"} /\ rs.pc = "done")
        => rs.result \in {"payload", "null"}

\* ---------------------------------------------------------------- layout
\* The lines of an output that ends with a line end: the characters
\* between one line end and the next.
SplitLines(text) ==
    LET ends == {i \in DOMAIN text : text[i] = "\n"}
        before(i) == {j \in ends : j < i}
    IN [k \in 1..Cardinality(ends) |->
           LET e == CHOOSE i \in ends : Cardinality(before(i)) = k - 1
               b == IF before(e) = {} THEN 0
                    ELSE CHOOSE j \in before(e) : \A h \in before(e) : h <= j
           IN SubSeq(text, b + 1, e - 1)]

LeadingSpaces(line) ==
    LET ink == {i \in DOMAIN line : line[i] # " "} IN
    IF ink = {} THEN Len(line) ELSE Min(ink) - 1

OutputLines == SplitLines(lay.output)

\* C22: for W = 48 and a line of visible length L <= W, generateText
\* prefixes a center-aligned line with exactly floor((W - L) / 2) spaces and
\* a right-aligned line with exactly W - L spaces; for L > W with none.
C22_AlignmentPadding ==
    (lay.kind = "text" /\ lay.pc = "done" /\ lay.lead > 0)
        => LET item == lay.content[1]
               L == lay.lead
               pad == LeadingSpaces(OutputLines[1])
           IN /\ Len(OutputLines) = 1
              /\ (item.alignment = "center" /\ L <= W) => pad = (W - L) \div 2
              /\ (item.alignment = "right" /\ L <= W) => pad = W - L
              /\ L > W => pad = 0
              /\ item.alignment = "left" => pad = 0

C22_Witness ==
    /\ lay.kind = "text" /\ lay.pc = "done" /\ lay.lead = 45
    /\ lay.content[1].alignment = "center"
    /\ LeadingSpaces(OutputLines[1]) = 1

\* The characters of a text that are not spaces.
Ink(text) == Len(SelectSeq(text, LAMBDA c : c \notin {" ", "\n"}))

\* C23: the layout engine never truncates and never emits a line longer
\* than the column count: a longer text is wrapped onto further lines.
C23_NoLineLongerThanColumns ==
    (lay.kind = "text" /\ lay.pc = "done")
        => /\ \A i \in DOMAIN OutputLines : Len(OutputLines[i]) <= W
           /\ Ink(lay.output) >= lay.lead

\* C24: an item row shows '{quantity}x {name}' at the left and the price
\* right-aligned on the same line when the row fits in the columns; the
\* price goes on its own right-aligned line only when the row does not fit.
C24_ItemRowLayout ==
    (lay.kind \in {"rowWindows", "rowServer"} /\ lay.pc = "done")
        => IF lay.lead + 1 + lay.price <= W
           THEN OutputLines =
                    <<Chars(lay.lead, "x") \o Spaces(W - lay.lead - lay.price)
                        \o Chars(lay.price, "p")>>
           ELSE OutputLines =
                    <<Chars(lay.lead, "x"),
                      Spaces(W - lay.price) \o Chars(lay.price, "p")>>

\* --------------------------------------------------------------- totals
\* C25: in the customer receipt every item line shows the item's quantity
\* and quantity x unit price, the subtotal is the sum of the line amounts
\* and the total is subtotal + tax + delivery fee; 2 x 6.50 and 1 x 2.00
\* with tax 1.70 and no fee print 13.00, 2.00, 15.00, 1.70 and 16.70.
C25_ReceiptTotals ==
    (rc.pc = "done" /\ rc.totals)
        => /\ \A i \in DOMAIN rc.items :
                /\ rc.lines[i].quantity = rc.items[i].quantity
                /\ rc.lines[i].amount =
                      ToFixed2(rc.items[i].quantity * rc.items[i].price)
           /\ rc.subtotal = SumPence(rc.lines)
           /\ rc.total = rc.subtotal + rc.tax + rc.fee
           /\ (rc.items = <<[quantity |-> 2, price |-> 650],
                            [quantity |-> 1, price |-> 200]>>
                  /\ rc.tax = 170 /\ rc.fee = 0)
                 => /\ rc.lines[1].amount = [pounds |-> 13, pence |-> 0]
                    /\ rc.lines[2].amount = [pounds |-> 2, pence |-> 0]
                    /\ ToFixed2(rc.subtotal) = [pounds |-> 15, pence |-> 0]
                    /\ rc.taxLine /\ ToFixed2(rc.tax) = [pounds |-> 1, pence |-> 70]
                    /\ ToFixed2(rc.total) = [pounds |-> 16, pence |-> 70]

\* ------------------------------------------------------------ discovery
\* C26: for any reported list, findThermalPrinter returns 'EPSON TM-T20III
\* Receipt' when it is in the list; otherwise 'EPSON TM-T88V Receipt' when
\* it is; otherwise an Epson thermal printer of the list; otherwise the
\* first printer; it fails with 'No printers available' only for the empty
\* list, and a returned name is always a member of the list.
EpsonThermalNames == {DEFAULT_PRINTER, BACKUP_PRINTER, "Epson TM-T70"}

C26_PrinterPriority ==
    (fp.pc = "done" /\ fp.listed)
        => LET has(p) == p \in Range(fp.printers) IN
           /\ CASE has(DEFAULT_PRINTER) -> fp.result = DEFAULT_PRINTER
                [] ~has(DEFAULT_PRINTER) /\ has(BACKUP_PRINTER) ->
                       fp.result = BACKUP_PRINTER
                [] ~has(DEFAULT_PRINTER) /\ ~has(BACKUP_PRINTER)
                     /\ Range(fp.printers) \cap EpsonThermalNames # {} ->
                       fp.result \in EpsonThermalNames
                [] OTHER ->
                       IF fp.printers # <<>> THEN fp.result = fp.printers[1]
                       ELSE fp.result = "none"
           /\ (fp.error = "No printers available") <=> (fp.printers = <<>>)
           /\ (fp.result = "none") <=> (fp.printers = <<>>)
           /\ fp.result # "none" => has(fp.result)

C26_Witness ==
    /\ fp.pc = "done" /\ fp.result = "Epson TM-T70"
    /\ fp.printers = <<"HP LaserJet", "EPSON Stylus", "Epson TM-T70">>

\* ------------------------------------------------------- temporary files
\* C27: when print attempts overlap, each sends to the printer exactly the
\* content it was given: no attempt overwrites or deletes the temporary
\* file another attempt is still using.
C27_EachAttemptPrintsItsOwnContent ==
    \A a \in Attempts :
        /\ tf.att[a].pc \in {"read", "done"} => tf.att[a].sent = a
        /\ tf.att[a].pc = "spawned" => tf.files[tf.att[a].file] = a

\* ------------------------------------------------------------- progress
\* A terminal update was issued and the queue did not apply it (a rejected
\* one in a print callback also ends the process and with it every job).
UpdateFailed ==
    \E t \in Ticks, j \in Jobs : ex[t][j].persist \in {"error", "throw"}

Fetched(j) == \E t \in Ticks : j \in tick[t].batch

\* C28: every job a poll tick fetched as PENDING eventually has a terminal
\* status in the queue, provided the print command returns and the queue
\* applies the terminal updates; no job stays PRINTING forever.
C28_FetchedJobsReachTerminal ==
    \A j \in Jobs : Fetched(j) ~> (status[j] \in Terminal \/ UpdateFailed)

C28_Witness ==
    /\ ~UpdateFailed
    /\ \A j \in Jobs : Fetched(j) /\ status[j] \in Terminal
    /\ \E j, k \in Jobs : status[j] = "COMPLETED" /\ status[k] = "FAILED"

C30_FailedTickChangesNothing ==
    [][\A t \in Ticks :
        /\ (tick[t].pc = "idle" /\ tick'[t].pc # "idle" /\ ~pollingEnabled)
              => (tick'[t].pc = "done" /\ tick'[t].batch = {}
                    /\ status' = status /\ ex' = ex)
        /\ (tick[t].pc = "fetch" /\ tick'[t].pc # "fetch" /\ faults' > faults)
              => (tick'[t].pc = "done" /\ tick'[t].batch = {}
                    /\ status' = status /\ ex' = ex)
        /\ (tick[t].pc = "done" /\ tick[t].batch = {})
              => (tick'[t] = tick[t] /\ ex'[t] = ex[t]
                    /\ \A j \in Jobs : ex[t][j] = NoEx)]_vars

C30_Witness ==
    /\ pollingEnabled /\ faults = 1
    /\ tick[1].pc = "done" /\ tick[1].batch = {}
    /\ \A j \in Jobs : status[j] = "PENDING" /\ ex[1][j] = NoEx

====
